---- MODULE Spec2Model ----
(***************************************************************************)
(* Model of public-api/src/diff.rs: PublicItemsDiff::between, is_empty and *)
(* bag_to_path_map.  A PublicItem is a record [path, tokens]; a HashBag is *)
(* a function from the distinct items to their positive counts; a HashMap  *)
(* from paths to item vectors is a function from its keys to sequences.    *)
(* The order in which a HashBag or a HashMap iterates depends on the hash  *)
(* state, so every iteration takes its order as an explicit argument and   *)
(* the actions draw that order from all enumerations of the keys.          *)
(***************************************************************************)
EXTENDS Naturals, Sequences, FiniteSets

VARIABLES old_items, new_items, calls

vars == <<old_items, new_items, calls>>

\* Bounds of the model.
NumPaths == 2
NumTokens == 3
MaxItems == 4

Paths == 1..NumPaths
Tokens == 1..NumTokens

\* PublicItem { path, tokens }
PublicItem == [path : Paths, tokens : Tokens]

\* Ord for PublicItem: path first, then the rendering.
ItemLess(a, b) ==
  \/ a.path < b.path
  \/ a.path = b.path /\ a.tokens < b.tokens

ItemLeq(a, b) == a = b \/ ItemLess(a, b)

\* derive(PartialOrd, Ord) on ChangedPublicItem: old member, then new member.
ChangedLeq(c, d) ==
  \/ ItemLess(c.old, d.old)
  \/ c.old = d.old /\ ItemLeq(c.new, d.new)

Range(s) == {s[i] : i \in DOMAIN s}

\* All enumerations of the finite set S: the orders an iteration may take.
RECURSIVE Orders(_)
Orders(S) ==
  IF S = {} THEN {<<>>}
  ELSE UNION {{<<x>> \o s : s \in Orders(S \ {x})} : x \in S}

\* A HashSet in place of the HashBag: every distinct item counted once.
collect_set(items) == [v \in Range(items) |-> 1]

\* into_iter().collect::<HashBag<_>>()
collect(items) ==
  [v \in Range(items) |-> Cardinality({i \in DOMAIN items : items[i] = v})]

\* HashBag::contains: the number of occurrences, 0 when absent.
contains(bag, v) == IF v \in DOMAIN bag THEN bag[v] ELSE 0

\* No subtraction of the other bag: every entry of self with its full count.
difference_all(self, other, iter) ==
  [i \in 1..Len(iter) |-> <<iter[i], self[iter[i]]>>]

\* HashBag::difference, iterating self in the order iter: the entries
\* <<item, n>> of self whose count exceeds the other bag's by n > 0.
difference(self, other, iter) ==
  LET F[i \in 0..Len(iter)] ==
        IF i = 0 THEN <<>>
        ELSE IF contains(other, iter[i]) < self[iter[i]]
             THEN Append(F[i - 1], <<iter[i], self[iter[i]] - contains(other, iter[i])>>)
             ELSE F[i - 1]
  IN F[Len(iter)]

\* HashMap::remove(&path).unwrap_or_default()
remove_or_default(map, path) == IF path \in DOMAIN map THEN map[path] ELSE <<>>

\* A lookup in place of HashMap::remove: the entry stays in the map.
without_keep(map, path) == map

\* The map left after HashMap::remove(&path).
without(map, path) == [p \in DOMAIN map \ {path} |-> map[p]]

\* bag_to_path_map: push each item `occurrences` times onto its path's vec.
bag_to_path_map(d) ==
  LET F[i \in 0..Len(d)] ==
        IF i = 0 THEN [p \in {} |-> <<>>]
        ELSE LET map == F[i - 1]
                 item == d[i][1]
                 occurrences == d[i][2]
                 items == remove_or_default(map, item.path)
             IN [p \in DOMAIN map \cup {item.path} |->
                   IF p = item.path
                   THEN items \o [k \in 1..occurrences |-> item]
                   ELSE map[p]]
  IN F[Len(d)]

\* The pairing loop stopping as soon as one vec is exhausted.
RECURSIVE pair_loop_drop(_, _, _)
pair_loop_drop(out, removed_items, added_items) ==
  IF removed_items = <<>> \/ added_items = <<>> THEN out
  ELSE pair_loop_drop([out EXCEPT !.changed =
                         Append(@, [old |-> removed_items[Len(removed_items)],
                                    new |-> added_items[Len(added_items)]])],
                      SubSeq(removed_items, 1, Len(removed_items) - 1),
                      SubSeq(added_items, 1, Len(added_items) - 1))

\* The loop without pairing: every candidate is emitted as removed or added.
RECURSIVE pair_loop_unpaired(_, _, _)
pair_loop_unpaired(out, removed_items, added_items) ==
  IF removed_items # <<>>
  THEN pair_loop_unpaired([out EXCEPT !.removed = Append(@, removed_items[Len(removed_items)])],
                          SubSeq(removed_items, 1, Len(removed_items) - 1), added_items)
  ELSE IF added_items # <<>>
  THEN pair_loop_unpaired([out EXCEPT !.added = Append(@, added_items[Len(added_items)])],
                          removed_items, SubSeq(added_items, 1, Len(added_items) - 1))
  ELSE out

\* The inner loop of between for one path: pop both vecs until both are empty.
RECURSIVE pair_loop(_, _, _)
pair_loop(out, removed_items, added_items) ==
  IF removed_items = <<>> /\ added_items = <<>> THEN out
  ELSE IF removed_items # <<>> /\ added_items # <<>>
  THEN pair_loop([out EXCEPT !.changed =
                    Append(@, [old |-> removed_items[Len(removed_items)],
                               new |-> added_items[Len(added_items)]])],
                 SubSeq(removed_items, 1, Len(removed_items) - 1),
                 SubSeq(added_items, 1, Len(added_items) - 1))
  ELSE IF removed_items # <<>>
  THEN pair_loop([out EXCEPT !.removed = Append(@, removed_items[Len(removed_items)])],
                 SubSeq(removed_items, 1, Len(removed_items) - 1), added_items)
  ELSE pair_loop([out EXCEPT !.added = Append(@, added_items[Len(added_items)])],
                 removed_items, SubSeq(added_items, 1, Len(added_items) - 1))

\* The outer loop of between over touched_paths.
RECURSIVE path_loop(_, _, _, _)
path_loop(out, touched_paths, removed_paths, added_paths) ==
  IF touched_paths = <<>> THEN out
  ELSE LET path == Head(touched_paths)
       IN path_loop(pair_loop(out, remove_or_default(removed_paths, path),
                              remove_or_default(added_paths, path)),
                    Tail(touched_paths),
                    without(removed_paths, path),
                    without(added_paths, path))

\* Vec<PublicItem>::sort: stable insertion of each element into the sorted
\* prefix, after the elements not greater than it.
insert_item(s, x) ==
  LET below == {i \in DOMAIN s : ItemLeq(s[i], x)}
      k == IF below = {} THEN 0 ELSE CHOOSE i \in below : \A j \in below : j <= i
  IN SubSeq(s, 1, k) \o <<x>> \o SubSeq(s, k + 1, Len(s))

sort_items(s) ==
  LET F[i \in 0..Len(s)] == IF i = 0 THEN <<>> ELSE insert_item(F[i - 1], s[i])
  IN F[Len(s)]

\* Vec<ChangedPublicItem>::sort, likewise under the derived order.
insert_changed(s, x) ==
  LET below == {i \in DOMAIN s : ChangedLeq(s[i], x)}
      k == IF below = {} THEN 0 ELSE CHOOSE i \in below : \A j \in below : j <= i
  IN SubSeq(s, 1, k) \o <<x>> \o SubSeq(s, k + 1, Len(s))

sort_changed(s) ==
  LET F[i \in 0..Len(s)] == IF i = 0 THEN <<>> ELSE insert_changed(F[i - 1], s[i])
  IN F[Len(s)]

\* The loop of between with removed and added sorted but changed left in the
\* order the loop produced it.
pair_and_sort_changed_unsorted(removed_paths, added_paths, removed_keys, added_keys) ==
  LET touched_paths == removed_keys \o added_keys
      out == path_loop([removed |-> <<>>, changed |-> <<>>, added |-> <<>>],
                       touched_paths, removed_paths, added_paths)
  IN [removed |-> sort_items(out.removed),
      changed |-> out.changed,
      added |-> sort_items(out.added)]

\* The loop and the sorts of between, from the two path maps and the orders
\* removed_keys, added_keys in which their keys are iterated.
pair_and_sort(removed_paths, added_paths, removed_keys, added_keys) ==
  LET touched_paths == removed_keys \o added_keys
      out == path_loop([removed |-> <<>>, changed |-> <<>>, added |-> <<>>],
                       touched_paths, removed_paths, added_paths)
  IN [removed |-> sort_items(out.removed),
      changed |-> sort_changed(out.changed),
      added |-> sort_items(out.added)]

\* is_empty looking at removed and added only.
is_empty_ignoring_changed(diff) == diff.removed = <<>> /\ diff.added = <<>>

\* PublicItemsDiff::is_empty
is_empty(diff) == diff.removed = <<>> /\ diff.changed = <<>> /\ diff.added = <<>>

\* The path maps bag_to_path_map can build from self.difference(other), one
\* for each order the bag self can iterate in.
path_maps(self, other) ==
  {bag_to_path_map(difference(self, other, iter)) : iter \in Orders(DOMAIN self)}

\* The results PublicItemsDiff::between(o, n) can return, one for each order
\* the two bags and the two path maps can iterate in.
between(o, n) ==
  LET old == collect(o)
      new == collect(n)
  IN UNION {{pair_and_sort(removed_paths, added_paths, removed_keys, added_keys) :
               removed_keys \in Orders(DOMAIN removed_paths),
               added_keys \in Orders(DOMAIN added_paths)} :
            removed_paths \in path_maps(old, new),
            added_paths \in path_maps(new, old)}

\* The sequences of exactly k items in non-decreasing order: the inputs of
\* length k up to order (collect forgets the order of its input).
RECURSIVE SortedSeqs(_)
SortedSeqs(k) ==
  IF k = 0 THEN {<<>>}
  ELSE UNION {{Append(s, x) : x \in {y \in PublicItem : k = 1 \/ ItemLeq(s[k - 1], y)}} :
              s \in SortedSeqs(k - 1)}

\* The rearrangements of the sequence s.
Permutations(s) == {[i \in DOMAIN s |-> s[f[i]]] : f \in Orders(DOMAIN s)}

\* The record of one call of between.
Call(o, n, diff) == [old_items |-> o, new_items |-> n, diff |-> diff]

\* The caller holds two snapshots of at most MaxItems items in total.
Init ==
  /\ \E k \in 0..MaxItems, l \in 0..MaxItems :
       /\ k + l <= MaxItems
       /\ old_items \in SortedSeqs(k)
       /\ new_items \in SortedSeqs(l)
  /\ calls = <<>>

\* The caller diffs its two snapshots.
Between ==
  /\ calls = <<>>
  /\ \E diff \in between(old_items, new_items) :
       calls' = <<Call(old_items, new_items, diff)>>
  /\ UNCHANGED <<old_items, new_items>>

\* The caller diffs the same snapshots again, their items in another order.
BetweenReordered ==
  /\ Len(calls) = 1
  /\ \E o \in Permutations(old_items), n \in Permutations(new_items) :
       \E diff \in between(o, n) :
         calls' = Append(calls, Call(o, n, diff))
  /\ UNCHANGED <<old_items, new_items>>

\* The caller diffs the snapshots the other way round.
BetweenSwapped ==
  /\ Len(calls) = 1
  /\ \E diff \in between(new_items, old_items) :
       calls' = Append(calls, Call(new_items, old_items, diff))
  /\ UNCHANGED <<old_items, new_items>>

Next == Between

Spec == Init /\ [][Next]_vars

NextRepeat == Between \/ BetweenReordered \/ BetweenSwapped

SpecRepeat == Init /\ [][NextRepeat]_vars

(***************************************************************************)
(* Properties.                                                             *)
(***************************************************************************)

Count(v, s) == Cardinality({i \in DOMAIN s : s[i] = v})

Monus(a, b) == IF a > b THEN a - b ELSE 0

CountAsOld(v, changed) == Cardinality({i \in DOMAIN changed : changed[i].old = v})

CountAsNew(v, changed) == Cardinality({i \in DOMAIN changed : changed[i].new = v})

CountAtPath(p, s) == Cardinality({i \in DOMAIN s : s[i].path = p})

ChangedAtPath(p, changed) == Cardinality({i \in DOMAIN changed : changed[i].old.path = p})

SameMultiset(a, b) == \A v \in PublicItem : Count(v, a) = Count(v, b)

SubMultiset(a, b) == \A v \in PublicItem : Count(v, a) <= Count(v, b)

\* The number of instances with path p in the multiset difference a - b.
ExcessAtPath(p, a, b) ==
  Cardinality({e \in {v \in PublicItem : v.path = p} \X (1..Len(a)) :
                 e[2] <= Monus(Count(e[1], a), Count(e[1], b))})

Min(a, b) == IF a < b THEN a ELSE b

SortedItems(s) == \A i \in 1..(Len(s) - 1) : ItemLeq(s[i], s[i + 1])

SortedChanged(s) == \A i \in 1..(Len(s) - 1) : ChangedLeq(s[i], s[i + 1])

Swapped(changed) ==
  [i \in DOMAIN changed |-> [old |-> changed[i].new, new |-> changed[i].old]]

\* C1: count conservation.  In every result, for every item value v, the
\* occurrences of v in removed plus the changed pairs whose old member is v
\* number max(0, count(v, old) - count(v, new)), and the occurrences of v in
\* added plus the changed pairs whose new member is v number
\* max(0, count(v, new) - count(v, old)).
CountConservation ==
  \A i \in DOMAIN calls :
    LET c == calls[i] IN
      \A v \in PublicItem :
        /\ Count(v, c.diff.removed) + CountAsOld(v, c.diff.changed)
             = Monus(Count(v, c.old_items), Count(v, c.new_items))
        /\ Count(v, c.diff.added) + CountAsNew(v, c.diff.changed)
             = Monus(Count(v, c.new_items), Count(v, c.old_items))

\* A call whose result has a changed pair (its path is in both groupings and
\* so twice in touched_paths) and a removal, from an input with a duplicate.
CountConservationWitness ==
  \E i \in DOMAIN calls :
    /\ calls[i].diff.changed # <<>>
    /\ calls[i].diff.removed # <<>>
    /\ \E v \in PublicItem : Count(v, calls[i].old_items) >= 2

\* C2: determinism.  Two calls of between on rearrangements of the same old
\* and new inputs return identical results.
Determinism ==
  (/\ Len(calls) = 2
   /\ SameMultiset(calls[1].old_items, calls[2].old_items)
   /\ SameMultiset(calls[1].new_items, calls[2].new_items))
  => calls[1].diff = calls[2].diff

\* C3: two calls of between on the same multisets old and new return the same
\* removed sequence, the same added sequence and as many changed pairs.
RemovedAddedIndependentOfOrder ==
  (/\ Len(calls) = 2
   /\ SameMultiset(calls[1].old_items, calls[2].old_items)
   /\ SameMultiset(calls[1].new_items, calls[2].new_items))
  => /\ calls[1].diff.removed = calls[2].diff.removed
     /\ calls[1].diff.added = calls[2].diff.added
     /\ Len(calls[1].diff.changed) = Len(calls[2].diff.changed)

\* C4: symmetry.  between(old, new).removed is between(new, old).added,
\* between(old, new).added is between(new, old).removed, and
\* between(old, new).changed is between(new, old).changed with the members of
\* each pair swapped.
Symmetry ==
  (/\ Len(calls) = 2
   /\ calls[2].old_items = calls[1].new_items
   /\ calls[2].new_items = calls[1].old_items)
  => /\ calls[1].diff.removed = calls[2].diff.added
     /\ calls[1].diff.added = calls[2].diff.removed
     /\ calls[1].diff.changed = Swapped(calls[2].diff.changed)

\* C5: between(x, x) is empty for every x, and is_empty holds of a result
\* exactly when old and new are equal as multisets.
EmptyIffEqualInputs ==
  \A i \in DOMAIN calls :
    LET c == calls[i] IN
      /\ c.old_items = c.new_items =>
           c.diff.removed = <<>> /\ c.diff.changed = <<>> /\ c.diff.added = <<>>
      /\ is_empty(c.diff) <=> SameMultiset(c.old_items, c.new_items)

\* A call of between(x, x) for an x that holds an item twice.
EmptyIffEqualInputsWitness ==
  \E i \in DOMAIN calls :
    /\ calls[i].old_items = calls[i].new_items
    /\ \E v \in PublicItem : Count(v, calls[i].old_items) >= 2
    /\ is_empty(calls[i].diff)

\* C6: every changed pair has old.path = new.path and old # new, its old
\* member occurs in the old input and its new member in the new input.
ChangedWellFormed ==
  \A i \in DOMAIN calls :
    LET c == calls[i] IN
      \A k \in DOMAIN c.diff.changed :
        LET ch == c.diff.changed[k] IN
          /\ ch.old.path = ch.new.path
          /\ ch.old # ch.new
          /\ ch.old \in Range(c.old_items)
          /\ ch.new \in Range(c.new_items)

\* A call that reports a changed pair although an item of its path is in
\* both inputs.
ChangedWellFormedWitness ==
  \E i \in DOMAIN calls :
    /\ calls[i].diff.changed # <<>>
    /\ \E v \in Range(calls[i].old_items) \cap Range(calls[i].new_items) :
         v.path = calls[i].diff.changed[1].old.path

\* C7: no removed item has the path of an added item of the same result.
PathLocality ==
  \A i \in DOMAIN calls :
    LET c == calls[i] IN
      \A k \in DOMAIN c.diff.removed, l \in DOMAIN c.diff.added :
        c.diff.removed[k].path # c.diff.added[l].path

\* A call with removed and added candidates on one path and a result that
\* holds a removal, a change and an addition.
PathLocalityWitness ==
  \E i \in DOMAIN calls :
    /\ calls[i].diff.removed # <<>>
    /\ calls[i].diff.changed # <<>>
    /\ calls[i].diff.added # <<>>

\* C8: removed and added are in non-decreasing item order (path, then
\* rendering) and changed is ordered by old member, then new member.
OutputSorted ==
  \A i \in DOMAIN calls :
    /\ SortedItems(calls[i].diff.removed)
    /\ SortedItems(calls[i].diff.added)
    /\ SortedChanged(calls[i].diff.changed)

\* A call whose result has two different changed pairs.
OutputSortedWitness ==
  \E i \in DOMAIN calls :
    /\ Len(calls[i].diff.changed) = 2
    /\ calls[i].diff.changed[1] # calls[i].diff.changed[2]

\* C9: when old is a sub-multiset of new, removed and changed are empty and
\* added is the sorted multiset new - old; when new is a sub-multiset of old,
\* added and changed are empty and removed is the sorted multiset old - new.
PureAdditionsAndRemovals ==
  \A i \in DOMAIN calls :
    LET c == calls[i] IN
      /\ SubMultiset(c.old_items, c.new_items) =>
           /\ c.diff.removed = <<>>
           /\ c.diff.changed = <<>>
           /\ SortedItems(c.diff.added)
           /\ \A v \in PublicItem :
                Count(v, c.diff.added) = Count(v, c.new_items) - Count(v, c.old_items)
      /\ SubMultiset(c.new_items, c.old_items) =>
           /\ c.diff.added = <<>>
           /\ c.diff.changed = <<>>
           /\ SortedItems(c.diff.removed)
           /\ \A v \in PublicItem :
                Count(v, c.diff.removed) = Count(v, c.old_items) - Count(v, c.new_items)

\* A call where old is a sub-multiset of new and an added item has the path
\* of a different item that is in both inputs.
PureAdditionsAndRemovalsWitness ==
  \E i \in DOMAIN calls :
    LET c == calls[i] IN
      /\ SubMultiset(c.old_items, c.new_items)
      /\ \E k \in DOMAIN c.diff.added, l \in DOMAIN c.old_items :
           /\ c.diff.added[k].path = c.old_items[l].path
           /\ c.diff.added[k] # c.old_items[l]

\* C10: for every path p, with r instances of path p in old - new and a in
\* new - old, the result has min(r, a) changed pairs, r - min(r, a) removed
\* items and a - min(r, a) added items of path p.
PerPathCounts ==
  \A i \in DOMAIN calls :
    LET c == calls[i] IN
      \A p \in Paths :
        LET r == ExcessAtPath(p, c.old_items, c.new_items)
            a == ExcessAtPath(p, c.new_items, c.old_items)
        IN /\ ChangedAtPath(p, c.diff.changed) = Min(r, a)
           /\ CountAtPath(p, c.diff.removed) = r - Min(r, a)
           /\ CountAtPath(p, c.diff.added) = a - Min(r, a)

\* A call with a path that has more removed than added candidates, and at
\* least one of each.
PerPathCountsWitness ==
  \E i \in DOMAIN calls :
    \E p \in Paths :
      LET r == ExcessAtPath(p, calls[i].old_items, calls[i].new_items)
          a == ExcessAtPath(p, calls[i].new_items, calls[i].old_items)
      IN a >= 1 /\ r > a /\ CountAtPath(p, calls[i].diff.removed) = r - a

====
